---- MODULE Spec2Model ----
(***************************************************************************)
(* A model of probnmn's two training-loop helpers:                         *)
(*   - CheckpointManager (probnmn/utils/checkpointing.py)                  *)
(*   - _Evaluator        (probnmn/evaluators/_evaluator.py)                *)
(*                                                                         *)
(* Spec      drives the CheckpointManager (step, load, and the training    *)
(*           loop changing the checkpointables between the calls).         *)
(* SpecEval  drives _Evaluator.evaluate.                                   *)
(*                                                                         *)
(* Metrics are integers in units of 1e-12, so that the initial best metric *)
(* of -1e-12 is the integer -1.                                            *)
(***************************************************************************)
EXTENDS Integers, Sequences, FiniteSets, TLC

VARIABLES
    \* ---- CheckpointManager ----
    keep_recent,        \* self.keep_recent
    checkpointables,    \* self.checkpointables: name -> the object's live state
    views,              \* name -> TRUE when the object's state_dict() hands out
                        \*         views of its live state (as torch modules do)
    _best_metric,       \* self._best_metric
    _best_ckpt,         \* self._best_ckpt
    _recent_iterations, \* self._recent_iterations
    disk,               \* path -> content of the serialized file
    \* ---- what the caller of the CheckpointManager observes ----
    last,               \* the last call made
    raised,             \* TRUE when the last call raised
    ret,                \* the value the last load() returned
    restored,           \* the names load_state_dict() was called on by the last load()
    prev,               \* checkpointables as they were when the last call started
    stepLog,            \* the iterations of all step() calls, in call order
    stepRaised,         \* TRUE when some step() call raised
    snap,               \* iteration -> checkpointables at the latest step(iteration)
    topMetric,          \* the highest metric any step() carried, <<>> when none did
    topContent,         \* the contents serialized by the step() calls that carried it
    recordContent,      \* what the step() that set the best record wrote to the best file
    calls,              \* the number of calls made so far
    \* ---- _Evaluator ----
    _models,            \* self._models: name -> which get_metrics the object exposes
    mode,               \* name -> "train" or "eval" (nn.Module.training)
    _dataloader,        \* the number of batches self._dataloader yields
    ev                  \* what the caller observes of the last evaluate()

ckptVars == <<keep_recent, checkpointables, views, _best_metric, _best_ckpt,
              _recent_iterations, disk, last, raised, ret, restored, prev,
              stepLog, stepRaised, snap, topMetric, topContent, recordContent,
              calls>>
evalVars == <<_models, mode, _dataloader, ev>>
vars == <<ckptVars, evalVars>>

(***************************************************************************)
(* Bounds of the model.                                                    *)
(***************************************************************************)
MaxKeep == 1        \* keep_recent ranges over 0..MaxKeep
MaxIteration == 1   \* step() is called with iterations 0..MaxIteration
MaxCalls == 3       \* at most MaxCalls calls (step, load, training) are made
MaxMetric == 1      \* metrics range over MetricStep * (-MaxMetric..MaxMetric)
MetricStep == 2     \* the distance of two metrics, in units of 1e-12
MaxState == 1       \* a checkpointable's state ranges over 0..MaxState
MaxBatches == 4     \* the data loader yields 0..MaxBatches batches
MaxNumBatches == 2  \* evaluate(num_batches) with num_batches in 0..MaxNumBatches

\* The registries a manager is built with (**checkpointables of __init__).
Names == {"model", "optimizer", "iteration"}
Registries == {{}, {"model"}, {"model", "optimizer"}, {"model", "iteration"}}
Iterations == 0..MaxIteration
Metrics == {MetricStep * m : m \in (0 - MaxMetric)..MaxMetric}
StateVals == 0..MaxState
None == <<>>

(***************************************************************************)
(* Dictionaries are functions from keys to values.                         *)
(***************************************************************************)
EmptyDict == [k \in {} |-> 0]
Put(d, k, v) == [x \in DOMAIN d \cup {k} |-> IF x = k THEN v ELSE d[x]]
Range(s) == {s[i] : i \in DOMAIN s}

(***************************************************************************)
(* CheckpointManager                                                       *)
(***************************************************************************)
\* self._best_metric as __init__ sets it: -1e-12.
InitBestMetric == -1

IterPath(iteration) == "checkpoint_" \o ToString(iteration) \o ".pth"
BestPath == "checkpoint_best.pth"
\* Checkpoints that other runs left on disk, outside serialization_dir: one
\* saved without an iteration, one saved by another manager's
\* step(MaxIteration).
PretrainedPath == "pretrained.pth"
OtherRunPath == "other_run.pth"
OtherFiles ==
    [p \in {PretrainedPath, OtherRunPath} |->
        IF p = PretrainedPath
        THEN [k \in {"model", "scheduler"} |-> MaxState]
        ELSE [k \in {"optimizer", "iteration"} |->
                 IF k = "iteration" THEN MaxIteration ELSE MaxState]]

\* An entry of an in-memory state dict: a view of the named object's live
\* state (alias), or a value of its own.
ViewEntry == [alias |-> TRUE, val |-> 0]
ValEntry(v) == [alias |-> FALSE, val |-> v]

\* _state_dict(): the state dict of every checkpointable, by name. For an
\* nn.DataParallel the state dict is its module's; checkpointables[key] is
\* that state in both branches.
_state_dict ==
    [key \in DOMAIN checkpointables |->
        IF views[key] THEN ViewEntry ELSE ValEntry(checkpointables[key])]

\* torch.save(d, path): the content written is what d holds at the time of
\* the call; a view is written as the live state it shows.
torch_save(d) ==
    [k \in DOMAIN d |-> IF d[k].alias THEN checkpointables[k] ELSE d[k].val]

\* remove_earliest_checkpoint(): the queue's head is popped, then
\* self._serialization_dir is read. __init__ sets self.serialization_dir and
\* nothing sets self._serialization_dir, so the read raises AttributeError
\* and unlink() is never reached: the file stays on disk.
remove_earliest_checkpoint(recent, d) ==
    [recent |-> Tail(recent), disk |-> d, raised |-> TRUE]

StepImproves(metric) == metric # None /\ metric[1] > _best_metric

Step(iteration, metric) ==
    LET sd == Put(_state_dict, "iteration", ValEntry(iteration))
        best == IF StepImproves(metric) THEN sd ELSE _best_ckpt
        d1 == Put(disk, IterPath(iteration), torch_save(sd))
        d2 == Put(d1, BestPath, torch_save(best))
        appended == Append(_recent_iterations, iteration)
        out == IF Len(appended) > keep_recent
               THEN remove_earliest_checkpoint(appended, d2)
               ELSE [recent |-> appended, disk |-> d2, raised |-> FALSE]
        isTop == metric # None /\ (topMetric = None \/ metric[1] > topMetric[1])
        isTie == metric # None /\ topMetric # None /\ metric[1] = topMetric[1]
        kept == metric = None \/ metric[1] <= _best_metric
    IN  /\ calls < MaxCalls
        /\ calls' = calls + 1
        /\ _best_metric' = IF StepImproves(metric) THEN metric[1] ELSE _best_metric
        /\ _best_ckpt' = best
        /\ _recent_iterations' = out.recent
        /\ disk' = out.disk
        /\ raised' = out.raised
        /\ last' = [op |-> "step", path |-> IterPath(iteration), kept |-> kept,
                    best_before |-> _best_metric]
        /\ prev' = checkpointables
        /\ stepLog' = Append(stepLog, iteration)
        /\ stepRaised' = (stepRaised \/ out.raised)
        /\ snap' = Put(snap, iteration, checkpointables)
        /\ topMetric' = IF isTop THEN metric ELSE topMetric
        /\ topContent' = IF isTop THEN {torch_save(sd)}
                         ELSE IF isTie THEN topContent \cup {torch_save(sd)}
                         ELSE topContent
        /\ recordContent' = IF StepImproves(metric) THEN torch_save(sd)
                            ELSE recordContent
        /\ UNCHANGED <<keep_recent, checkpointables, views, ret, restored>>
        /\ UNCHANGED evalVars

\* checkpoint.pop("iteration", -1)
PopIteration(checkpoint) ==
    IF "iteration" \in DOMAIN checkpoint THEN checkpoint["iteration"] ELSE -1

\* Mutation of PoppedKeys: the iteration is read with get(), not popped.
PoppedKeys_get(checkpoint) == DOMAIN checkpoint

\* The keys left in the checkpoint after the pop.
PoppedKeys(checkpoint) == DOMAIN checkpoint \ {"iteration"}

\* The names load() calls load_state_dict() on.
LoadedKeys(checkpoint) == PoppedKeys(checkpoint) \cap DOMAIN checkpointables

\* Mutation of LoadStateDicts: load_state_dict() is never called.
LoadStateDicts_skip(checkpoint) == checkpointables

\* The checkpointables after load()'s loop over the checkpoint's keys
\* (load_state_dict of the object, or of its module for an nn.DataParallel).
LoadStateDicts(checkpoint) ==
    [key \in DOMAIN checkpointables |->
        IF key \in LoadedKeys(checkpoint) THEN checkpoint[key]
        ELSE checkpointables[key]]

Load(path) ==
    /\ calls < MaxCalls
    /\ calls' = calls + 1
    /\ last' = [op |-> "load", path |-> path, kept |-> TRUE,
                best_before |-> _best_metric]
    /\ prev' = checkpointables
    /\ IF path \in DOMAIN disk
       THEN /\ checkpointables' = LoadStateDicts(disk[path])
            /\ restored' = LoadedKeys(disk[path])
            /\ ret' = PopIteration(disk[path])
            /\ raised' = FALSE
       ELSE \* torch.load raises on a missing file
            /\ raised' = TRUE
            /\ UNCHANGED <<checkpointables, restored, ret>>
    /\ UNCHANGED <<keep_recent, views, _best_metric, _best_ckpt, _recent_iterations,
                   disk, stepLog, stepRaised, snap, topMetric, topContent,
                   recordContent>>
    /\ UNCHANGED evalVars

\* The training loop between two calls: a checkpointable's state changes in
\* place (train(model), optimizer.step()).
Train(key, v) ==
    /\ key \in DOMAIN checkpointables
    /\ checkpointables[key] # v
    /\ checkpointables' = [checkpointables EXCEPT ![key] = v]
    /\ calls < MaxCalls
    /\ calls' = calls + 1
    /\ last' = [op |-> "train", path |-> "", kept |-> TRUE,
                best_before |-> _best_metric]
    /\ prev' = checkpointables
    /\ raised' = FALSE
    /\ UNCHANGED <<keep_recent, views, _best_metric, _best_ckpt, _recent_iterations,
                   disk, ret, restored, stepLog, stepRaised, snap, topMetric,
                   topContent, recordContent>>
    /\ UNCHANGED evalVars

CkptInit ==
    /\ keep_recent \in 0..MaxKeep
    /\ \E registry \in Registries :
          /\ checkpointables = [key \in registry |-> 0]
          /\ views \in [registry -> BOOLEAN]
    /\ _best_metric = InitBestMetric
    /\ _best_ckpt = EmptyDict
    /\ _recent_iterations = <<>>
    /\ disk = OtherFiles
    /\ last = [op |-> "init", path |-> "", kept |-> TRUE,
                best_before |-> InitBestMetric]
    /\ calls = 0
    /\ raised = FALSE
    /\ ret = -1
    /\ restored = {}
    /\ prev = checkpointables
    /\ stepLog = <<>>
    /\ stepRaised = FALSE
    /\ snap = EmptyDict
    /\ topMetric = None
    /\ topContent = {}
    /\ recordContent = EmptyDict

LoadPaths == {IterPath(i) : i \in Iterations} \cup {BestPath, PretrainedPath, OtherRunPath}

Next ==
    \/ \E iteration \in Iterations, metric \in {None} \cup {<<m>> : m \in Metrics} :
          Step(iteration, metric)
    \/ \E path \in LoadPaths : Load(path)
    \/ \E key \in Names, v \in StateVals : Train(key, v)

(***************************************************************************)
(* _Evaluator                                                              *)
(***************************************************************************)
ModelRegistries == {{"model"}, {"model", "aux"}}
Modes == {"train", "eval"}
\* What a model object exposes: get_metrics of its own, or, when it is an
\* nn.DataParallel (which has none of its own), its module's get_metrics.
ModelKinds ==
    {[get_metrics |-> TRUE, parallel |-> FALSE, module_get_metrics |-> FALSE],
     [get_metrics |-> FALSE, parallel |-> FALSE, module_get_metrics |-> FALSE],
     [get_metrics |-> FALSE, parallel |-> TRUE, module_get_metrics |-> TRUE],
     [get_metrics |-> FALSE, parallel |-> TRUE, module_get_metrics |-> FALSE]}

\* Mutation of SwitchToEval: the eval() calls are left out.
SwitchToEval_skip(md) == md

\* for model_name in self._models: self._models[model_name].eval()
SwitchToEval(md) == [model_name \in DOMAIN md |-> "eval"]

\* Mutation of SwitchToTrain: the train() calls are left out.
SwitchToTrain_skip(md) == md

\* for model_name in self._models: self._models[model_name].train()
SwitchToTrain(md) == [model_name \in DOMAIN md |-> "train"]

\* The loop over the data loader, from batch number `iteration` on; each
\* batch is moved to the device and handed to _do_iteration before the
\* test on num_batches.
\* forwarded: the batches _do_iteration was called on, in call order;
\* raised: the forward pass of batch failAt raised, which ends the loop.
RECURSIVE RunLoop(_, _, _, _)
RunLoop(iteration, num_batches, failAt, forwarded) ==
    IF iteration >= _dataloader
    THEN [forwarded |-> forwarded, raised |-> FALSE]
    ELSE IF iteration = failAt
    THEN [forwarded |-> Append(forwarded, iteration), raised |-> TRUE]
    ELSE IF num_batches # None /\ iteration > num_batches[1]
    THEN [forwarded |-> Append(forwarded, iteration), raised |-> FALSE]
    ELSE RunLoop(iteration + 1, num_batches, failAt, Append(forwarded, iteration))

\* The keys of eval_metrics.
CollectMetrics ==
    {model_name \in DOMAIN _models :
        \/ _models[model_name].get_metrics
        \/ /\ _models[model_name].parallel
           /\ _models[model_name].module_get_metrics}

\* evaluate(num_batches), with the forward pass of batch failAt raising
\* (failAt = -1: no forward pass raises).
Evaluate(num_batches, failAt) ==
    LET loop == RunLoop(0, num_batches, failAt, <<>>)
    IN  /\ mode' = IF loop.raised THEN SwitchToEval(mode)
                   ELSE SwitchToTrain(SwitchToEval(mode))
        /\ ev' = [called |-> TRUE, num_batches |-> num_batches,
                  forwarded |-> loop.forwarded, raised |-> loop.raised,
                  eval_metrics |-> IF loop.raised THEN {} ELSE CollectMetrics,
                  prevMode |-> mode]
        /\ UNCHANGED <<_models, _dataloader>>
        /\ UNCHANGED ckptVars

EvalInit ==
    /\ \E registry \in ModelRegistries :
          /\ _models \in [registry -> ModelKinds]
          /\ mode \in [registry -> Modes]
    /\ _dataloader \in 0..MaxBatches
    /\ ev = [called |-> FALSE, num_batches |-> None, forwarded |-> <<>>,
             raised |-> FALSE, eval_metrics |-> {}, prevMode |-> mode]

NextEval ==
    \E num_batches \in {None} \cup {<<n>> : n \in 0..MaxNumBatches},
       failAt \in -1..(MaxBatches - 1) :
          Evaluate(num_batches, failAt)

\* The manager while only the evaluator runs.
CkptIdle ==
    /\ keep_recent = 0
    /\ checkpointables = EmptyDict
    /\ views = EmptyDict
    /\ _best_metric = InitBestMetric
    /\ _best_ckpt = EmptyDict
    /\ _recent_iterations = <<>>
    /\ disk = EmptyDict
    /\ last = [op |-> "init", path |-> "", kept |-> TRUE,
               best_before |-> InitBestMetric]
    /\ calls = 0
    /\ raised = FALSE
    /\ ret = -1
    /\ restored = {}
    /\ prev = EmptyDict
    /\ stepLog = <<>>
    /\ stepRaised = FALSE
    /\ snap = EmptyDict
    /\ topMetric = None
    /\ topContent = {}
    /\ recordContent = EmptyDict

\* The evaluator while only the manager runs.
EvalIdle ==
    /\ _models = EmptyDict
    /\ mode = EmptyDict
    /\ _dataloader = 0
    /\ ev = EmptyDict

Init == CkptInit /\ EvalIdle
Spec == Init /\ [][Next]_vars

InitEval == CkptIdle /\ EvalInit
SpecEval == InitEval /\ [][NextEval]_vars

(***************************************************************************)
(* Properties of the CheckpointManager, checked under Spec.                *)
(***************************************************************************)
\* The iterations whose checkpoint_<iteration>.pth is on disk.
PerIterationFiles == {i \in Iterations : IterPath(i) \in DOMAIN disk}
Distinct(s) == Cardinality(Range(s)) = Len(s)
\* The last k elements of s.
LastK(s, k) == {s[j] : j \in {j \in DOMAIN s : j > Len(s) - k}}

\* C1: after N step() calls with pairwise distinct iterations and
\* N > keep_recent, no step() has raised and exactly keep_recent
\* per-iteration files are on disk, those of the keep_recent latest calls.
C1_KeepsMostRecent ==
    (Distinct(stepLog) /\ Len(stepLog) > keep_recent) =>
        /\ ~stepRaised
        /\ Cardinality(PerIterationFiles) = keep_recent
        /\ PerIterationFiles = LastK(stepLog, keep_recent)

\* C2: once some step() carried a metric, checkpoint_best.pth holds the
\* content serialized by a step() that carried the highest metric so far,
\* whatever the sign of the metrics.
C2_BestFileIsHighestMetric ==
    topMetric # None =>
        /\ BestPath \in DOMAIN disk
        /\ disk[BestPath] \in topContent

\* The last call was a load() of checkpoint_<i>.pth that returned.
LoadedIteration(i) == last.op = "load" /\ last.path = IterPath(i) /\ ~raised

C5_LoadFrame ==
    (last.op = "load" /\ ~raised) =>
        LET file == disk[last.path]
            inFile == {key \in DOMAIN prev : key \in DOMAIN file /\ key # "iteration"}
        IN  /\ restored = inFile
            /\ DOMAIN checkpointables = DOMAIN prev
            /\ \A key \in inFile : checkpointables[key] = file[key]
            /\ \A key \in DOMAIN prev \ inFile : checkpointables[key] = prev[key]
            /\ ret = IF "iteration" \in DOMAIN file THEN file["iteration"] ELSE -1

\* A load() of a file without iteration that restored one checkpointable to
\* a new state, left another alone and skipped a key nothing is registered
\* under.
C5_Witness ==
    /\ last.op = "load"
    /\ ~raised
    /\ ret = -1
    /\ \E key \in restored : prev[key] # checkpointables[key]
    /\ DOMAIN checkpointables \ restored # {}
    /\ DOMAIN disk[last.path] \ (DOMAIN checkpointables \cup {"iteration"}) # {}

\* C6: load() of checkpoint_best.pth as step() wrote it returns -1.
C6_BestLoadsMinusOne ==
    (last.op = "load" /\ last.path = BestPath /\ ~raised) => ret = -1

\* C8: a step() whose metric is absent or not greater than the best so far
\* leaves the best metric as it was and writes to checkpoint_best.pth the
\* content that the step() which set the record wrote.
C8_KeptRecordUnchanged ==
    (last.op = "step" /\ last.kept) =>
        /\ _best_metric = last.best_before
        /\ disk[BestPath] = recordContent

\* C9: the queue is never longer than keep_recent and the per-iteration
\* files on disk are exactly the iterations the queue holds.
C9_QueueMatchesDisk ==
    /\ Len(_recent_iterations) <= keep_recent
    /\ PerIterationFiles = Range(_recent_iterations)

(***************************************************************************)
(* Properties of _Evaluator.evaluate, checked under SpecEval.              *)
(***************************************************************************)
Returned == ev.called /\ ~ev.raised
Min(a, b) == IF a < b THEN a ELSE b
\* The batches 0 .. n-1 in loader order.
FirstBatches(n) == [i \in 1..n |-> i - 1]

\* C4, as claimed: after evaluate() returns, every model has the mode it
\* had before the call.
C4_ModePreserved ==
    Returned => \A m \in DOMAIN mode : mode[m] = ev.prevMode[m]

\* C4, amended: after evaluate() returns, a model that was in training mode
\* before the call has the mode it had, and a model that was in inference
\* mode before the call has not: it is in training mode.
C4_TrainModePreserved ==
    Returned =>
        \A m \in DOMAIN mode :
            /\ ev.prevMode[m] = "train" => mode[m] = ev.prevMode[m]
            /\ ev.prevMode[m] = "eval" => mode[m] = "train"

\* evaluate() returned after forward passes, with one model that was in
\* training mode and one that was in inference mode before the call.
C4_Witness ==
    /\ Returned
    /\ ev.forwarded # <<>>
    /\ \E m \in DOMAIN mode : ev.prevMode[m] = "train"
    /\ \E m \in DOMAIN mode : ev.prevMode[m] = "eval"

\* C7: evaluate(num_batches = n) forwards exactly the first min(n, L) of the
\* loader's L batches, each once; evaluate() forwards all L, each once.
C7_ForwardsNumBatches ==
    Returned =>
        ev.forwarded = IF ev.num_batches = None
                       THEN FirstBatches(_dataloader)
                       ELSE FirstBatches(Min(ev.num_batches[1], _dataloader))

\* C10, as claimed: every model is in training mode after evaluate(), whether
\* it returned or a forward pass raised, and no batch is forwarded twice.
C10_TrainModeOnEveryExit ==
    ev.called =>
        /\ \A m \in DOMAIN mode : mode[m] = "train"
        /\ Distinct(ev.forwarded)

\* C10, amended: when evaluate() returns, every model is in training mode,
\* also the models that are absent from the result; when a forward pass
\* raises, the loop ends at that batch, no batch is forwarded twice, and
\* every model is left in inference mode.
C10_TrainModeOnReturn ==
    ev.called =>
        /\ Distinct(ev.forwarded)
        /\ ~ev.raised =>
              /\ \A m \in DOMAIN mode : mode[m] = "train"
              /\ ev.eval_metrics \subseteq DOMAIN mode
        /\ ev.raised =>
              /\ \A m \in DOMAIN mode : mode[m] = "eval"
              /\ ev.eval_metrics = {}

\* A forward pass raised after earlier batches were forwarded, with a model
\* that was in training mode before the call.
C10_Witness ==
    /\ ev.called
    /\ ev.raised
    /\ Len(ev.forwarded) >= 2
    /\ \E m \in DOMAIN mode : ev.prevMode[m] = "train"

====
